---------------------------- MODULE Spec2Model ----------------------------
(***************************************************************************)
(* Model of the benchmark workflows (doWork, noStepsWorkflow,              *)
(* oneStepWorkflow, tenSequentialStepsWorkflow, tenParallelStepsWorkflow,  *)
(* genBenchStream, doubleNumbers, streamWorkflow, stressTestStep,          *)
(* promiseAllStressTestWorkflow, promiseRaceStressTestLargeWorkflow) and   *)
(* of the Next.js instrumentation bootstrap.                               *)
(*                                                                         *)
(* A workflow is a JavaScript async function: it runs from one await to    *)
(* the next without interruption.  A step call returns a promise; the      *)
(* step's body is run by the orchestrator, which is not part of the        *)
(* source, so the moment at which a started step completes is a free       *)
(* choice of the environment: a step's promise may be settled at any       *)
(* moment after the call, also before the workflow reaches its next await  *)
(* (an orchestrator that replays a workflow has the results of earlier     *)
(* steps at hand).  Promise.all, Promise.race, Map, ReadableStream and     *)
(* TransformStream follow ECMAScript / WHATWG Streams.  The pipe of        *)
(* pipeThrough is modelled without backpressure: it may move a chunk       *)
(* whenever one is queued, which includes every schedule backpressure      *)
(* allows.  doubleNumbers is also run on its own, on a stream that holds   *)
(* a small text cut into chunks in every possible way.                     *)
(***************************************************************************)
EXTENDS Integers, Sequences, FiniteSets, TLC

(* ------------------------------ bounds -------------------------------- *)

\* largest `count` given to the two stress workflows
MaxCount == 3

\* noStepsWorkflow / oneStepWorkflow receive input in -MaxInput..MaxInput
MaxInput == 2

\* the stream given to doubleNumbers on its own holds at most MaxLines lines
MaxLines == 2

(* ------------------------- program constants -------------------------- *)

\* doWork: return 42
DoWorkResult == 42

\* tenSequentialStepsWorkflow: for (let i = 0; i < 10; i++)
SeqSteps == 10

\* tenParallelStepsWorkflow: for (let i = 0; i < 10; i++)
ParSteps == 10

\* genBenchStream: for (let i = 0; i < 10; i++)
StreamChunks == 10

\* the radix of parseInt(line, 10) and of number-to-string conversion
Radix == 10

(* --------------------------- sequence helpers ------------------------- *)

Range(s) == {s[k] : k \in 1..Len(s)}

NoDup(s) == \A j, k \in 1..Len(s) : j # k => s[j] # s[k]

\* faulty variant of SumSeq: the reducer drops the accumulator
SumSeqLast(s) == IF s = <<>> THEN 0 ELSE s[Len(s)]

RECURSIVE SumSeq(_)
\* results.reduce((sum, val) => sum + val, 0)
SumSeq(s) == IF s = <<>> THEN 0 ELSE SumSeq(SubSeq(s, 1, Len(s) - 1)) + s[Len(s)]

RECURSIVE Flatten(_)
\* the concatenation of the chunks of a stream
Flatten(ss) == IF ss = <<>> THEN <<>> ELSE Head(ss) \o Flatten(Tail(ss))

IsPrefix(s, t) == Len(s) <= Len(t) /\ s = SubSeq(t, 1, Len(s))

\* position of x in s (0 when absent)
PosIn(s, x) == IF x \in Range(s) THEN CHOOSE k \in 1..Len(s) : s[k] = x ELSE 0

(* ------------------------------- text --------------------------------- *)
(* A string is a sequence of one-character strings; a chunk (Uint8Array)   *)
(* is a sequence of byte values.                                           *)

Digits == <<"0", "1", "2", "3", "4", "5", "6", "7", "8", "9">>

IsDigit(c) == c \in Range(Digits)

DigitVal(c) == PosIn(Digits, c) - 1

\* String.prototype.trim / parseInt white space that the model's bytes can form
IsSpace(c) == c \in {" ", "\t", "\r", "\n"}

\* the characters of the model and their UTF-8 (= ASCII) byte
CharTable ==
  [k \in 1..10 |-> [ch |-> Digits[k], code |-> 47 + k]] \o
  << [ch |-> "\n", code |-> 10], [ch |-> "\t", code |-> 9],
     [ch |-> "\r", code |-> 13], [ch |-> " ", code |-> 32],
     [ch |-> "-", code |-> 45],  [ch |-> "+", code |-> 43],
     [ch |-> "N", code |-> 78],  [ch |-> "a", code |-> 97] >>

CharCode(c) == (CHOOSE e \in Range(CharTable) : e.ch = c).code

CodeChar(b) == (CHOOSE e \in Range(CharTable) : e.code = b).ch

\* TextEncoder.encode
Encode(text) == [k \in 1..Len(text) |-> CharCode(text[k])]

\* TextDecoder.decode(chunk, {stream: true}); every byte of the model is a
\* complete one-byte code point, so the decoder buffers nothing
Decode(chunk) == [k \in 1..Len(chunk) |-> CodeChar(chunk[k])]

RECURSIVE NatToString(_)
NatToString(n) ==
  IF n < Radix THEN <<Digits[n + 1]>>
  ELSE NatToString(n \div Radix) \o <<Digits[(n % Radix) + 1]>>

\* a JavaScript number of the model: an integer or NaN
Num(n) == [nan |-> FALSE, val |-> n]
NaN == [nan |-> TRUE, val |-> 0]

\* `${n}`
NumberToString(x) ==
  IF x.nan THEN <<"N", "a", "N">>
  ELSE IF x.val < 0 THEN <<"-">> \o NatToString(-x.val)
  ELSE NatToString(x.val)

\* num * 2
Times2(x) == IF x.nan THEN NaN ELSE Num(x.val * 2)

RECURSIVE SplitFrom(_, _)
\* text.split('\n'), cur being the line collected so far
SplitFrom(text, cur) ==
  IF text = <<>> THEN <<cur>>
  ELSE IF Head(text) = "\n" THEN <<cur>> \o SplitFrom(Tail(text), <<>>)
  ELSE SplitFrom(Tail(text), Append(cur, Head(text)))

Split(text) == SplitFrom(text, <<>>)

RECURSIVE TrimStart(_)
TrimStart(s) == IF s # <<>> /\ IsSpace(Head(s)) THEN TrimStart(Tail(s)) ELSE s

RECURSIVE TrimEnd(_)
TrimEnd(s) ==
  IF s # <<>> /\ IsSpace(s[Len(s)]) THEN TrimEnd(SubSeq(s, 1, Len(s) - 1)) ELSE s

\* faulty variant of Trim: nothing is removed
TrimNothing(s) == s

\* line.trim()
Trim(s) == TrimEnd(TrimStart(s))

RECURSIVE DigitPrefixValue(_, _)
\* value of the longest prefix of digits of s, acc being the value so far
DigitPrefixValue(s, acc) ==
  IF s # <<>> /\ IsDigit(Head(s))
  THEN DigitPrefixValue(Tail(s), acc * Radix + DigitVal(Head(s)))
  ELSE acc

\* parseInt(line, 10): leading white space is skipped, then an optional sign,
\* then the longest run of digits; NaN when there is no digit
ParseInt(line) ==
  LET s == TrimStart(line)
      neg == s # <<>> /\ Head(s) = "-"
      body == IF s # <<>> /\ Head(s) \in {"-", "+"} THEN Tail(s) ELSE s
  IN IF body = <<>> \/ ~IsDigit(Head(body)) THEN NaN
     ELSE Num((IF neg THEN -1 ELSE 1) * DigitPrefixValue(body, 0))

\* encoder.encode(`${i}\n`)
GenChunk(n) == Encode(NumberToString(Num(n)) \o <<"\n">>)

RECURSIVE TransformLines(_)
\* for (const line of lines) if (line.trim()) { enqueue(`${parseInt(line) * 2}\n`) }
TransformLines(lines) ==
  IF lines = <<>> THEN <<>>
  ELSE (IF Trim(Head(lines)) # <<>>
        THEN <<Encode(NumberToString(Times2(ParseInt(Head(lines)))) \o <<"\n">>)>>
        ELSE <<>>) \o TransformLines(Tail(lines))

\* doubleNumbers' transform(chunk, controller): the chunks it enqueues, in order
Transform(chunk) == TransformLines(Split(Decode(chunk)))

(* ------------------------------- state -------------------------------- *)

VARIABLES
  prog,             \* the function of the repository that is run
  input,            \* its argument: `input`, or `count`
  pc,               \* the place the workflow function has reached
  i,                \* the loop variable of the workflow
  result,           \* `result` of oneStep / tenSequential / the race loop
  ret,              \* <<v>> once the workflow has returned v
  steps,            \* the step invocations, in call order
  promises,         \* `promises` of tenParallel / promiseAll: step ids
  results,          \* `results`, what Promise.all resolved to
  runningTasks,     \* the Map of the race workflow, in insertion order
  done,             \* `done` of the race workflow
  race,             \* the promise of the Promise.race being awaited
  completionOrder,  \* stressTestStep arguments in the order the steps completed
  crowded,          \* a race wait began with several tracked steps complete
  raceWaits,        \* the number of Promise.race waits begun
  genPc,            \* genBenchStream's start(controller): none, paused, closed
  genI,             \* its loop variable i
  srcQueue,         \* chunks enqueued on the generated stream and not yet read
  srcClose,         \* controller.close() was called on the generated stream
  pipe,             \* stream.pipeThrough(transformStream): none, piping, closed
  outQueue,         \* chunks enqueued on the transform's readable side, unread
  outClose,         \* the transform's readable side was closed
  received,         \* chunks the reader of the returned stream has read
  readerDone,       \* that reader has been told the stream is closed
  enqueued,         \* every chunk enqueued on the source stream, in order
  pauses,           \* the number of 10 ms timers start(controller) has set
  closes,           \* the number of calls of controller.close()
  NEXT_RUNTIME,     \* process.env.NEXT_RUNTIME ("unset" when undefined)
  world,            \* what 'workflow/api' and getWorld() turn out to be
  otel,             \* the service names given to registerOTel, in order
  importState,      \* import('workflow/api'): none, loading, resolved, rejected
  kick,             \* the async callback given to then(): none, awaiting, done
  startCalls,       \* the number of calls of world.start
  startState,       \* the promise start() returned: none, pending, fulfilled, rejected
  chain             \* the promise then() returned: none, pending, fulfilled, rejected

wfVars == <<prog, input, pc, i, result, ret, steps, promises, results,
            runningTasks, done, race, completionOrder, crowded, raceWaits>>

\* what genBenchStream's start(controller) has done so far
genLog == <<enqueued, pauses, closes>>

streamVars == <<genPc, genI, srcQueue, srcClose, pipe, outQueue, outClose,
                received, readerDone, genLog>>

instrVars == <<NEXT_RUNTIME, world, otel, importState, kick, startCalls,
               startState, chain>>

vars == <<wfVars, streamVars, instrVars>>

Programs ==
  {"noStepsWorkflow", "oneStepWorkflow", "tenSequentialStepsWorkflow",
   "tenParallelStepsWorkflow", "streamWorkflow",
   "promiseAllStressTestWorkflow", "promiseRaceStressTestLargeWorkflow",
   "instrumentation", "doubleNumbers"}

\* the lines of the streams given to doubleNumbers on its own: numbers of
\* one and of two characters, a negative number, a line of white space
Lines == {<<"7">>, <<"1", "2">>, <<"-", "3">>, <<" ">>}

LineSeqs == UNION {[1..n -> Lines] : n \in 0..MaxLines}

RECURSIVE TextOf(_)
\* the text of a stream of lines, each ended by a newline
TextOf(ls) ==
  IF ls = <<>> THEN <<>> ELSE Head(ls) \o <<"\n">> \o TextOf(Tail(ls))

RECURSIVE Chunkings(_)
\* every way of cutting the bytes b into non-empty chunks
Chunkings(b) ==
  IF b = <<>> THEN {<<>>}
  ELSE UNION { {<<SubSeq(b, 1, k)>> \o rest :
                  rest \in Chunkings(SubSeq(b, k + 1, Len(b)))} :
               k \in 1..Len(b) }

\* the streams doubleNumbers is given: each text, chunked in every way
SourceStreams == UNION {Chunkings(Encode(TextOf(ls))) : ls \in LineSeqs}

\* values of process.env.NEXT_RUNTIME: the sentinel, another runtime, a value
\* that differs from the sentinel in case only, and the variable being unset
Runtimes == {"edge", "nodejs", "Edge", "unset"}

\* the module load may fail; the world may lack `start`; start() may reject
Worlds == [importFails : BOOLEAN, hasStart : BOOLEAN, startRejects : BOOLEAN]

DefaultWorld == [importFails |-> FALSE, hasStart |-> TRUE, startRejects |-> FALSE]

Inputs(p) ==
  IF p \in {"noStepsWorkflow", "oneStepWorkflow"} THEN (-MaxInput)..MaxInput
  ELSE IF p \in {"promiseAllStressTestWorkflow",
                 "promiseRaceStressTestLargeWorkflow"} THEN 0..MaxCount
  ELSE {0}

NoRace == [st |-> "none", v |-> 0, tasks |-> <<>>]

(* ------------------------------- steps -------------------------------- *)

\* calling a 'use step' function: a new invocation whose promise is pending
StartStep(fn, arg) ==
  steps' = Append(steps, [fn |-> fn, arg |-> arg, status |-> "pending",
                          value |-> 0, execs |-> 0])

\* the id (promise) of the step that StartStep adds
NewStep == Len(steps) + 1

Fulfilled(s) == steps[s].status = "fulfilled"

InFlight == {s \in 1..Len(steps) : steps[s].status = "pending"}

\* the body of a step has run and returned v
Fulfil(s, v) ==
  steps' = [steps EXCEPT ![s] = [@ EXCEPT !.status = "fulfilled",
                                          !.value = v,
                                          !.execs = @ + 1]]

(* ------------------------------ promises ------------------------------ *)

\* Promise.all(ps) settles once every element has; its value keeps the
\* order of ps
AllSettled(ps) == \A k \in 1..Len(ps) : Fulfilled(ps[k])

\* faulty variant of PromiseAllValue: the values in completion order
PromiseAllValueByCompletion(ps) ==
  IF Len(completionOrder) = Len(ps) THEN completionOrder
  ELSE [k \in 1..Len(ps) |-> steps[ps[k]].value]

PromiseAllValue(ps) == [k \in 1..Len(ps) |-> steps[ps[k]].value]

\* Promise.race(ps): reactions are attached in iteration order, so among
\* promises already settled at the call the first of ps wins; otherwise the
\* race stays pending until one of ps settles
SettledIn(ps) == {k \in 1..Len(ps) : Fulfilled(ps[k])}

FirstSettled(ps) == CHOOSE k \in 1..Len(ps) :
                      /\ Fulfilled(ps[k])
                      /\ \A j \in 1..(k - 1) : ~Fulfilled(ps[j])

\* faulty variant of PromiseRace: the first promise listed wins, settled or not
PromiseRaceFirstListed(ps) ==
  IF ps = <<>> THEN [st |-> "pending", v |-> 0, tasks |-> ps]
  ELSE [st |-> "settled", v |-> steps[ps[1]].arg, tasks |-> ps]

\* faulty variant of PromiseRace: promises settled before the call are missed
PromiseRaceMissesSettled(ps) == [st |-> "pending", v |-> 0, tasks |-> ps]

PromiseRace(ps) ==
  IF \E k \in 1..Len(ps) : Fulfilled(ps[k])
  THEN [st |-> "settled", v |-> steps[ps[FirstSettled(ps)]].value, tasks |-> ps]
  ELSE [st |-> "pending", v |-> 0, tasks |-> ps]

\* the effect on a pending race of step s being fulfilled with v
RaceAfter(s, v) ==
  IF race.st = "pending" /\ s \in Range(race.tasks)
  THEN [race EXCEPT !.st = "settled", !.v = v]
  ELSE race

(* -------------------------------- Map --------------------------------- *)

MapHas(m, key) == \E k \in 1..Len(m) : m[k].key = key

\* Map.prototype.set: a new key goes last, a known key keeps its place
MapSet(m, key, task) ==
  IF MapHas(m, key)
  THEN [k \in 1..Len(m) |-> IF m[k].key = key THEN [key |-> key, task |-> task]
                            ELSE m[k]]
  ELSE Append(m, [key |-> key, task |-> task])

\* faulty variant of MapDelete: the entry is not removed
MapDeleteNothing(m, key) == m

\* Map.prototype.delete keeps the order of the other entries
MapDelete(m, key) == SelectSeq(m, LAMBDA e : e.key # key)

\* Map.prototype.values(), in insertion order
MapValues(m) == [k \in 1..Len(m) |-> m[k].task]

MapKeys(m) == {m[k].key : k \in 1..Len(m)}

MapSize(m) == Len(m)

(* -------------------------------- Init -------------------------------- *)

Init ==
  /\ prog \in Programs
  /\ input \in Inputs(prog)
  /\ pc = "start"
  /\ i = 0
  /\ result = 0
  /\ ret = <<>>
  /\ steps = (IF prog = "doubleNumbers"
              THEN <<[fn |-> "doubleNumbers", arg |-> 1, status |-> "pending",
                      value |-> 0, execs |-> 0]>>
              ELSE <<>>)
  /\ promises = <<>>
  /\ results = <<>>
  /\ runningTasks = <<>>
  /\ done = <<>>
  /\ race = NoRace
  /\ completionOrder = <<>>
  /\ crowded = FALSE
  /\ raceWaits = 0
  /\ genPc = "none"
  /\ genI = 0
  /\ srcQueue \in (IF prog = "doubleNumbers" THEN SourceStreams ELSE {<<>>})
  /\ srcClose = (prog = "doubleNumbers")
  /\ pipe = "none"
  /\ outQueue = <<>>
  /\ outClose = FALSE
  /\ received = <<>>
  /\ readerDone = FALSE
  /\ enqueued = srcQueue
  /\ pauses = 0
  /\ closes = 0
  /\ NEXT_RUNTIME \in (IF prog = "instrumentation" THEN Runtimes ELSE {"unset"})
  /\ world \in (IF prog = "instrumentation" THEN Worlds ELSE {DefaultWorld})
  /\ otel = <<>>
  /\ importState = "none"
  /\ kick = "none"
  /\ startCalls = 0
  /\ startState = "none"
  /\ chain = "none"

(* --------------------------- the step bodies -------------------------- *)

\* async function doWork() { return 42 }
doWork(s) ==
  /\ s \in InFlight
  /\ steps[s].fn = "doWork"
  /\ Fulfil(s, DoWorkResult)
  /\ UNCHANGED <<prog, input, pc, i, result, ret, promises, results,
                 runningTasks, done, race, completionOrder, crowded, raceWaits>>
  /\ UNCHANGED <<streamVars, instrVars>>

\* faulty variant of stressTestStep: it returns i + 1
stressTestStep_offByOne(s) ==
  /\ s \in InFlight
  /\ steps[s].fn = "stressTestStep"
  /\ Fulfil(s, steps[s].arg + 1)
  /\ race' = RaceAfter(s, steps[s].arg + 1)
  /\ completionOrder' = Append(completionOrder, steps[s].arg)
  /\ UNCHANGED <<prog, input, pc, i, result, ret, promises, results,
                 runningTasks, done, crowded, raceWaits>>
  /\ UNCHANGED <<streamVars, instrVars>>

\* async function stressTestStep(i) { return i }
stressTestStep(s) ==
  /\ s \in InFlight
  /\ steps[s].fn = "stressTestStep"
  /\ Fulfil(s, steps[s].arg)
  /\ race' = RaceAfter(s, steps[s].arg)
  /\ completionOrder' = Append(completionOrder, steps[s].arg)
  /\ UNCHANGED <<prog, input, pc, i, result, ret, promises, results,
                 runningTasks, done, crowded, raceWaits>>
  /\ UNCHANGED <<streamVars, instrVars>>

(* ----------------------------- noSteps -------------------------------- *)

\* return input * 2
noStepsWorkflow ==
  /\ prog = "noStepsWorkflow"
  /\ pc = "start"
  /\ ret' = <<input * 2>>
  /\ pc' = "returned"
  /\ UNCHANGED <<prog, input, i, result, steps, promises, results,
                 runningTasks, done, race, completionOrder, crowded, raceWaits>>
  /\ UNCHANGED <<streamVars, instrVars>>

(* ----------------------------- oneStep -------------------------------- *)

\* const result = await doWork()     (the call)
oneStepWorkflow_call ==
  /\ prog = "oneStepWorkflow"
  /\ pc = "start"
  /\ StartStep("doWork", 0)
  /\ pc' = "await"
  /\ UNCHANGED <<prog, input, i, result, ret, promises, results,
                 runningTasks, done, race, completionOrder, crowded, raceWaits>>
  /\ UNCHANGED <<streamVars, instrVars>>

\* faulty variant of oneStepWorkflow_return: input is not added
oneStepWorkflow_returnResult ==
  /\ prog = "oneStepWorkflow"
  /\ pc = "await"
  /\ Fulfilled(Len(steps))
  /\ result' = steps[Len(steps)].value
  /\ ret' = <<result'>>
  /\ pc' = "returned"
  /\ UNCHANGED <<prog, input, i, steps, promises, results,
                 runningTasks, done, race, completionOrder, crowded, raceWaits>>
  /\ UNCHANGED <<streamVars, instrVars>>

\* the await is over: return result + input
oneStepWorkflow_return ==
  /\ prog = "oneStepWorkflow"
  /\ pc = "await"
  /\ Fulfilled(Len(steps))
  /\ result' = steps[Len(steps)].value
  /\ ret' = <<result' + input>>
  /\ pc' = "returned"
  /\ UNCHANGED <<prog, input, i, steps, promises, results,
                 runningTasks, done, race, completionOrder, crowded, raceWaits>>
  /\ UNCHANGED <<streamVars, instrVars>>

(* --------------------------- tenSequential ---------------------------- *)

\* i < 10: result = await doWork()    (the call)
tenSequentialStepsWorkflow_call ==
  /\ prog = "tenSequentialStepsWorkflow"
  /\ pc = "start"
  /\ i < SeqSteps
  /\ StartStep("doWork", 0)
  /\ pc' = "await"
  /\ UNCHANGED <<prog, input, i, result, ret, promises, results,
                 runningTasks, done, race, completionOrder, crowded, raceWaits>>
  /\ UNCHANGED <<streamVars, instrVars>>

\* faulty variant of tenSequentialStepsWorkflow_resume: the step is not awaited
tenSequentialStepsWorkflow_noAwait ==
  /\ prog = "tenSequentialStepsWorkflow"
  /\ pc = "await"
  /\ result' = steps[Len(steps)].value
  /\ i' = i + 1
  /\ pc' = "start"
  /\ UNCHANGED <<prog, input, ret, steps, promises, results,
                 runningTasks, done, race, completionOrder, crowded, raceWaits>>
  /\ UNCHANGED <<streamVars, instrVars>>

\* the await is over: result is assigned, i++
tenSequentialStepsWorkflow_resume ==
  /\ prog = "tenSequentialStepsWorkflow"
  /\ pc = "await"
  /\ Fulfilled(Len(steps))
  /\ result' = steps[Len(steps)].value
  /\ i' = i + 1
  /\ pc' = "start"
  /\ UNCHANGED <<prog, input, ret, steps, promises, results,
                 runningTasks, done, race, completionOrder, crowded, raceWaits>>
  /\ UNCHANGED <<streamVars, instrVars>>

\* i = 10: return result
tenSequentialStepsWorkflow_return ==
  /\ prog = "tenSequentialStepsWorkflow"
  /\ pc = "start"
  /\ ~(i < SeqSteps)
  /\ ret' = <<result>>
  /\ pc' = "returned"
  /\ UNCHANGED <<prog, input, i, result, steps, promises, results,
                 runningTasks, done, race, completionOrder, crowded, raceWaits>>
  /\ UNCHANGED <<streamVars, instrVars>>

(* ---------------------------- tenParallel ----------------------------- *)

\* i < 10: promises.push(doWork())
tenParallelStepsWorkflow_push ==
  /\ prog = "tenParallelStepsWorkflow"
  /\ pc = "start"
  /\ i < ParSteps
  /\ StartStep("doWork", 0)
  /\ promises' = Append(promises, NewStep)
  /\ i' = i + 1
  /\ UNCHANGED <<prog, input, pc, result, ret, results,
                 runningTasks, done, race, completionOrder, crowded, raceWaits>>
  /\ UNCHANGED <<streamVars, instrVars>>

\* i = 10: await Promise.all(promises)   (the wait begins)
tenParallelStepsWorkflow_all ==
  /\ prog = "tenParallelStepsWorkflow"
  /\ pc = "start"
  /\ ~(i < ParSteps)
  /\ pc' = "await"
  /\ UNCHANGED <<prog, input, i, result, ret, steps, promises, results,
                 runningTasks, done, race, completionOrder, crowded, raceWaits>>
  /\ UNCHANGED <<streamVars, instrVars>>

\* the combined wait is over: return results.reduce(...)
tenParallelStepsWorkflow_return ==
  /\ prog = "tenParallelStepsWorkflow"
  /\ pc = "await"
  /\ AllSettled(promises)
  /\ results' = PromiseAllValue(promises)
  /\ ret' = <<SumSeq(results')>>
  /\ pc' = "returned"
  /\ UNCHANGED <<prog, input, i, result, steps, promises,
                 runningTasks, done, race, completionOrder, crowded, raceWaits>>
  /\ UNCHANGED <<streamVars, instrVars>>

(* ------------------------- promiseAllStressTest ----------------------- *)

\* i < count: promises.push(stressTestStep(i))
promiseAllStressTestWorkflow_push ==
  /\ prog = "promiseAllStressTestWorkflow"
  /\ pc = "start"
  /\ i < input
  /\ StartStep("stressTestStep", i)
  /\ promises' = Append(promises, NewStep)
  /\ i' = i + 1
  /\ UNCHANGED <<prog, input, pc, result, ret, results,
                 runningTasks, done, race, completionOrder, crowded, raceWaits>>
  /\ UNCHANGED <<streamVars, instrVars>>

\* i = count: await Promise.all(promises)   (the wait begins)
promiseAllStressTestWorkflow_all ==
  /\ prog = "promiseAllStressTestWorkflow"
  /\ pc = "start"
  /\ ~(i < input)
  /\ pc' = "await"
  /\ UNCHANGED <<prog, input, i, result, ret, steps, promises, results,
                 runningTasks, done, race, completionOrder, crowded, raceWaits>>
  /\ UNCHANGED <<streamVars, instrVars>>

\* the combined wait is over: return results.length
promiseAllStressTestWorkflow_return ==
  /\ prog = "promiseAllStressTestWorkflow"
  /\ pc = "await"
  /\ AllSettled(promises)
  /\ results' = PromiseAllValue(promises)
  /\ ret' = <<Len(results')>>
  /\ pc' = "returned"
  /\ UNCHANGED <<prog, input, i, result, steps, promises,
                 runningTasks, done, race, completionOrder, crowded, raceWaits>>
  /\ UNCHANGED <<streamVars, instrVars>>

(* ---------------------- promiseRaceStressTestLarge -------------------- *)

\* i < count: runningTasks.set(i, stressTestStep(i))
promiseRaceStressTestLargeWorkflow_set ==
  /\ prog = "promiseRaceStressTestLargeWorkflow"
  /\ pc = "start"
  /\ i < input
  /\ StartStep("stressTestStep", i)
  /\ runningTasks' = MapSet(runningTasks, i, NewStep)
  /\ i' = i + 1
  /\ UNCHANGED <<prog, input, pc, result, ret, promises, results,
                 done, race, completionOrder, crowded, raceWaits>>
  /\ UNCHANGED <<streamVars, instrVars>>

\* i = count: const done = [], on to the while loop
promiseRaceStressTestLargeWorkflow_drain ==
  /\ prog = "promiseRaceStressTestLargeWorkflow"
  /\ pc = "start"
  /\ ~(i < input)
  /\ done' = <<>>
  /\ pc' = "while"
  /\ UNCHANGED <<prog, input, i, result, ret, steps, promises, results,
                 runningTasks, race, completionOrder, crowded, raceWaits>>
  /\ UNCHANGED <<streamVars, instrVars>>

\* faulty variant of promiseRaceStressTestLargeWorkflow_race: the race is
\* awaited before runningTasks.size is looked at
promiseRaceStressTestLargeWorkflow_raceUnguarded ==
  /\ prog = "promiseRaceStressTestLargeWorkflow"
  /\ pc = "while"
  /\ race' = PromiseRace(MapValues(runningTasks))
  /\ crowded' = (crowded \/ Cardinality(SettledIn(MapValues(runningTasks))) > 1)
  /\ raceWaits' = raceWaits + 1
  /\ pc' = "await"
  /\ UNCHANGED <<prog, input, i, result, ret, steps, promises, results,
                 runningTasks, done, completionOrder>>
  /\ UNCHANGED <<streamVars, instrVars>>

\* runningTasks.size > 0: await Promise.race(runningTasks.values())
promiseRaceStressTestLargeWorkflow_race ==
  /\ prog = "promiseRaceStressTestLargeWorkflow"
  /\ pc = "while"
  /\ MapSize(runningTasks) > 0
  /\ race' = PromiseRace(MapValues(runningTasks))
  /\ crowded' = (crowded \/ Cardinality(SettledIn(MapValues(runningTasks))) > 1)
  /\ raceWaits' = raceWaits + 1
  /\ pc' = "await"
  /\ UNCHANGED <<prog, input, i, result, ret, steps, promises, results,
                 runningTasks, done, completionOrder>>
  /\ UNCHANGED <<streamVars, instrVars>>

\* the race is over: done.push(result); runningTasks.delete(result)
promiseRaceStressTestLargeWorkflow_resume ==
  /\ prog = "promiseRaceStressTestLargeWorkflow"
  /\ pc = "await"
  /\ race.st = "settled"
  /\ result' = race.v
  /\ done' = Append(done, result')
  /\ runningTasks' = MapDelete(runningTasks, result')
  /\ race' = NoRace
  /\ pc' = "while"
  /\ UNCHANGED <<prog, input, i, ret, steps, promises, results,
                 completionOrder, crowded, raceWaits>>
  /\ UNCHANGED <<streamVars, instrVars>>

\* runningTasks.size = 0: return done.length
promiseRaceStressTestLargeWorkflow_return ==
  /\ prog = "promiseRaceStressTestLargeWorkflow"
  /\ pc = "while"
  /\ ~(MapSize(runningTasks) > 0)
  /\ ret' = <<Len(done)>>
  /\ pc' = "returned"
  /\ UNCHANGED <<prog, input, i, result, steps, promises, results,
                 runningTasks, done, race, completionOrder, crowded, raceWaits>>
  /\ UNCHANGED <<streamVars, instrVars>>

(* ------------------------------- streams ------------------------------ *)

\* step genBenchStream: new ReadableStream({start}) runs start(controller) up
\* to its first await: i = 0, the first chunk is enqueued, the timer is set
genBenchStream(s) ==
  /\ s \in InFlight
  /\ steps[s].fn = "genBenchStream"
  /\ genI' = 0
  /\ srcQueue' = Append(srcQueue, GenChunk(0))
  /\ enqueued' = Append(enqueued, GenChunk(0))
  /\ pauses' = pauses + 1
  /\ genPc' = "paused"
  /\ Fulfil(s, 1)
  /\ UNCHANGED <<prog, input, pc, i, result, ret, promises, results,
                 runningTasks, done, race, completionOrder, crowded, raceWaits>>
  /\ UNCHANGED <<srcClose, pipe, outQueue, outClose, received, readerDone,
                 closes>>
  /\ UNCHANGED instrVars

\* faulty variant of genBenchStream_timer: the stream is closed right after
\* the last chunk, without the pause
genBenchStream_timerNoLastPause ==
  /\ genPc = "paused"
  /\ genI' = genI + 1
  /\ srcQueue' = Append(srcQueue, GenChunk(genI'))
  /\ enqueued' = Append(enqueued, GenChunk(genI'))
  /\ IF genI' < StreamChunks - 1
     THEN /\ pauses' = pauses + 1
          /\ UNCHANGED <<genPc, srcClose, closes>>
     ELSE /\ srcClose' = TRUE
          /\ closes' = closes + 1
          /\ genPc' = "closed"
          /\ UNCHANGED pauses
  /\ UNCHANGED <<pipe, outQueue, outClose, received, readerDone>>
  /\ UNCHANGED <<wfVars, instrVars>>

\* the 10 ms timer fires: i++, then either the next chunk is enqueued and the
\* timer set again, or the loop is over and controller.close() is called
genBenchStream_timer ==
  /\ genPc = "paused"
  /\ genI' = genI + 1
  /\ IF genI' < StreamChunks
     THEN /\ srcQueue' = Append(srcQueue, GenChunk(genI'))
          /\ enqueued' = Append(enqueued, GenChunk(genI'))
          /\ pauses' = pauses + 1
          /\ UNCHANGED <<genPc, srcClose, closes>>
     ELSE /\ srcClose' = TRUE
          /\ closes' = closes + 1
          /\ genPc' = "closed"
          /\ UNCHANGED <<srcQueue, enqueued, pauses>>
  /\ UNCHANGED <<pipe, outQueue, outClose, received, readerDone>>
  /\ UNCHANGED <<wfVars, instrVars>>

\* step doubleNumbers: return stream.pipeThrough(transformStream)
doubleNumbers(s) ==
  /\ s \in InFlight
  /\ steps[s].fn = "doubleNumbers"
  /\ pipe' = "piping"
  /\ Fulfil(s, 2)
  /\ UNCHANGED <<prog, input, pc, i, result, ret, promises, results,
                 runningTasks, done, race, completionOrder, crowded, raceWaits>>
  /\ UNCHANGED <<genPc, genI, srcQueue, srcClose, outQueue, outClose,
                 received, readerDone, genLog>>
  /\ UNCHANGED instrVars

\* faulty variant of StreamClosed: close() discards what is queued
StreamClosedAtOnce(queue, closeRequested) == closeRequested

\* a readable stream on which close() was called is closed for its reader
\* once its queue is empty
StreamClosed(queue, closeRequested) == closeRequested /\ queue = <<>>

\* the pipe reads one chunk of the generated stream and writes it to the
\* transform stream, whose transform(chunk, controller) enqueues the output
pipeThrough_write ==
  /\ pipe = "piping"
  /\ srcQueue # <<>>
  /\ srcQueue' = Tail(srcQueue)
  /\ outQueue' = outQueue \o Transform(Head(srcQueue))
  /\ UNCHANGED <<genPc, genI, srcClose, pipe, outClose, received, readerDone,
                 genLog>>
  /\ UNCHANGED <<wfVars, instrVars>>

\* the pipe finds the generated stream closed and closes the transform stream
pipeThrough_close ==
  /\ pipe = "piping"
  /\ StreamClosed(srcQueue, srcClose)
  /\ pipe' = "closed"
  /\ outClose' = TRUE
  /\ UNCHANGED <<genPc, genI, srcQueue, srcClose, outQueue, received, readerDone,
                 genLog>>
  /\ UNCHANGED <<wfVars, instrVars>>

\* the transformed stream has reached its reader: streamWorkflow has
\* returned it, or doubleNumbers, run on its own, has
ReaderHasStream ==
  \/ prog = "streamWorkflow" /\ ret # <<>>
  \/ prog = "doubleNumbers" /\ pipe # "none"

\* whoever holds the transformed stream reads a chunk of it
reader_read ==
  /\ ReaderHasStream
  /\ outQueue # <<>>
  /\ received' = Append(received, Head(outQueue))
  /\ outQueue' = Tail(outQueue)
  /\ UNCHANGED <<genPc, genI, srcQueue, srcClose, pipe, outClose, readerDone,
                 genLog>>
  /\ UNCHANGED <<wfVars, instrVars>>

\* ... or is told that the stream is closed
reader_done ==
  /\ ReaderHasStream
  /\ ~readerDone
  /\ StreamClosed(outQueue, outClose)
  /\ readerDone' = TRUE
  /\ UNCHANGED <<genPc, genI, srcQueue, srcClose, pipe, outQueue, outClose,
                 received, genLog>>
  /\ UNCHANGED <<wfVars, instrVars>>

\* const stream = await genBenchStream()     (the call)
streamWorkflow_gen ==
  /\ prog = "streamWorkflow"
  /\ pc = "start"
  /\ StartStep("genBenchStream", 0)
  /\ pc' = "await_gen"
  /\ UNCHANGED <<prog, input, i, result, ret, promises, results,
                 runningTasks, done, race, completionOrder, crowded, raceWaits>>
  /\ UNCHANGED <<streamVars, instrVars>>

\* the await is over: const doubled = await doubleNumbers(stream)  (the call)
streamWorkflow_double ==
  /\ prog = "streamWorkflow"
  /\ pc = "await_gen"
  /\ Fulfilled(Len(steps))
  /\ StartStep("doubleNumbers", steps[Len(steps)].value)
  /\ pc' = "await_double"
  /\ UNCHANGED <<prog, input, i, result, ret, promises, results,
                 runningTasks, done, race, completionOrder, crowded, raceWaits>>
  /\ UNCHANGED <<streamVars, instrVars>>

\* the await is over: return doubled
streamWorkflow_return ==
  /\ prog = "streamWorkflow"
  /\ pc = "await_double"
  /\ Fulfilled(Len(steps))
  /\ ret' = <<steps[Len(steps)].value>>
  /\ pc' = "returned"
  /\ UNCHANGED <<prog, input, i, result, steps, promises, results,
                 runningTasks, done, race, completionOrder, crowded, raceWaits>>
  /\ UNCHANGED <<streamVars, instrVars>>

(* --------------------------- instrumentation -------------------------- *)

ServiceName == "example-nextjs-workflow"

\* faulty variant of NotEdge: the environment is not consulted
NotEdgeAlways(runtime) == TRUE

\* process.env.NEXT_RUNTIME !== 'edge'
NotEdge(runtime) == runtime # "edge"

\* faulty variant of CallsStart: start() instead of start?.()
CallsStartAlways(w) == TRUE

\* getWorld().start?.(): start is called only when the world has it
CallsStart(w) == w.hasStart

\* faulty variant of AsyncOutcome: the rejection is swallowed
AsyncOutcomeCaught(st) == "fulfilled"

\* what an async function that awaited a promise in state st ends in: a
\* rejection is not caught, so it rejects the function's own promise
AsyncOutcome(st) == IF st = "rejected" THEN "rejected" ELSE "fulfilled"

\* registerOTel({ serviceName: 'example-nextjs-workflow' })
instrumentation_registerOTel ==
  /\ prog = "instrumentation"
  /\ pc = "start"
  /\ otel' = Append(otel, ServiceName)
  /\ pc' = "if"
  /\ UNCHANGED <<prog, input, i, result, ret, steps, promises, results,
                 runningTasks, done, race, completionOrder, crowded, raceWaits>>
  /\ UNCHANGED <<NEXT_RUNTIME, world, importState, kick, startCalls,
                 startState, chain>>
  /\ UNCHANGED streamVars

\* if (process.env.NEXT_RUNTIME !== 'edge') import('workflow/api').then(...);
\* the module's top level ends here
instrumentation_if ==
  /\ prog = "instrumentation"
  /\ pc = "if"
  /\ IF NotEdge(NEXT_RUNTIME)
     THEN importState' = "loading" /\ chain' = "pending"
     ELSE UNCHANGED <<importState, chain>>
  /\ pc' = "returned"
  /\ UNCHANGED <<prog, input, i, result, ret, steps, promises, results,
                 runningTasks, done, race, completionOrder, crowded, raceWaits>>
  /\ UNCHANGED <<NEXT_RUNTIME, world, otel, kick, startCalls, startState>>
  /\ UNCHANGED streamVars

\* the dynamic import settles; when it rejects, then() passes the rejection
\* on without calling the callback
import_settle ==
  /\ importState = "loading"
  /\ IF world.importFails
     THEN importState' = "rejected" /\ chain' = "rejected"
     ELSE importState' = "resolved" /\ UNCHANGED chain
  /\ UNCHANGED <<NEXT_RUNTIME, world, otel, kick, startCalls, startState>>
  /\ UNCHANGED <<wfVars, streamVars>>

\* async ({ getWorld }) => { await getWorld().start?.()     (up to the await)
kickstart ==
  /\ importState = "resolved"
  /\ kick = "none"
  /\ IF CallsStart(world)
     THEN startCalls' = startCalls + 1 /\ startState' = "pending"
     ELSE UNCHANGED <<startCalls, startState>>
  /\ kick' = "awaiting"
  /\ UNCHANGED <<NEXT_RUNTIME, world, otel, importState, chain>>
  /\ UNCHANGED <<wfVars, streamVars>>

\* the promise that start() returned settles
start_settle ==
  /\ startState = "pending"
  /\ startState' = IF world.startRejects THEN "rejected" ELSE "fulfilled"
  /\ UNCHANGED <<NEXT_RUNTIME, world, otel, importState, kick, startCalls, chain>>
  /\ UNCHANGED <<wfVars, streamVars>>

\* the await is over and the callback ends, which settles then()'s promise
kickstart_end ==
  /\ kick = "awaiting"
  /\ startState # "pending"
  /\ chain' = AsyncOutcome(startState)
  /\ kick' = "done"
  /\ UNCHANGED <<NEXT_RUNTIME, world, otel, importState, startCalls, startState>>
  /\ UNCHANGED <<wfVars, streamVars>>

(* ------------------------------- Next --------------------------------- *)

Next ==
  \/ \E s \in 1..Len(steps) : doWork(s)
  \/ \E s \in 1..Len(steps) : stressTestStep(s)
  \/ \E s \in 1..Len(steps) : genBenchStream(s)
  \/ \E s \in 1..Len(steps) : doubleNumbers(s)
  \/ genBenchStream_timer
  \/ pipeThrough_write
  \/ pipeThrough_close
  \/ reader_read
  \/ reader_done
  \/ streamWorkflow_gen
  \/ streamWorkflow_double
  \/ streamWorkflow_return
  \/ instrumentation_registerOTel
  \/ instrumentation_if
  \/ import_settle
  \/ kickstart
  \/ start_settle
  \/ kickstart_end
  \/ noStepsWorkflow
  \/ oneStepWorkflow_call
  \/ oneStepWorkflow_return
  \/ tenSequentialStepsWorkflow_call
  \/ tenSequentialStepsWorkflow_resume
  \/ tenSequentialStepsWorkflow_return
  \/ tenParallelStepsWorkflow_push
  \/ tenParallelStepsWorkflow_all
  \/ tenParallelStepsWorkflow_return
  \/ promiseAllStressTestWorkflow_push
  \/ promiseAllStressTestWorkflow_all
  \/ promiseAllStressTestWorkflow_return
  \/ promiseRaceStressTestLargeWorkflow_set
  \/ promiseRaceStressTestLargeWorkflow_drain
  \/ promiseRaceStressTestLargeWorkflow_race
  \/ promiseRaceStressTestLargeWorkflow_resume
  \/ promiseRaceStressTestLargeWorkflow_return

Spec == Init /\ [][Next]_vars

(* ------------------------------ fairness ------------------------------ *)

\* every started step eventually completes
StepCompletes == \E s \in 1..Len(steps) : stressTestStep(s) \/ doWork(s)

\* a workflow whose await is over is eventually resumed, and runs on
WorkflowRuns ==
  \/ promiseRaceStressTestLargeWorkflow_set
  \/ promiseRaceStressTestLargeWorkflow_drain
  \/ promiseRaceStressTestLargeWorkflow_race
  \/ promiseRaceStressTestLargeWorkflow_resume
  \/ promiseRaceStressTestLargeWorkflow_return

FairSpec == Spec /\ WF_vars(StepCompletes) /\ WF_vars(WorkflowRuns)

(* ------------------------------- claims ------------------------------- *)

IsRace == prog = "promiseRaceStressTestLargeWorkflow"
IsAll == prog = "promiseAllStressTestWorkflow"
IsPar == prog = "tenParallelStepsWorkflow"
IsSeq == prog = "tenSequentialStepsWorkflow"

\* the steps 0..count-1
Indices == 0..(input - 1)

\* C1, as stated: when promiseRaceStressTestLargeWorkflow returns, `done` is
\* the completion order of the steps.
C1_DoneIsCompletionOrder ==
  (IsRace /\ pc = "returned") => done = completionOrder

\* C1, amended: the drain removes each started step exactly once and only
\* after it completed, so that at the end `done` is a duplicate-free
\* permutation of 0..count-1; two steps stand in `done` in their completion
\* order or else in ascending index order (a race over several promises that
\* are already settled returns the first in Map insertion order), and `done`
\* follows the completion order as long as no race wait has begun with more
\* than one tracked step already complete.
C1_Drain ==
  IsRace =>
    /\ NoDup(done)
    /\ Range(done) \subseteq Range(completionOrder)
    /\ Range(done) \cap MapKeys(runningTasks) = {}
    /\ pc \in {"while", "await", "returned"} =>
         Range(done) \cup MapKeys(runningTasks) = Indices
    /\ pc = "returned" => Range(done) = Indices /\ Len(done) = input
    /\ \A j, k \in 1..Len(done) :
         j < k => \/ PosIn(completionOrder, done[j]) < PosIn(completionOrder, done[k])
                  \/ done[j] < done[k]
    /\ ~crowded => IsPrefix(done, completionOrder)

\* C1: a drain that followed the completion order against the index order
C1_Witness ==
  /\ IsRace
  /\ pc = "returned"
  /\ Len(done) >= 3
  /\ done[1] > done[2]
  /\ ~crowded
  /\ done = completionOrder

\* C2: under fair step completion and fair scheduling of the workflow,
\* promiseRaceStressTestLargeWorkflow(count) eventually returns count.
C2_Terminates ==
  [](IsRace => <>(pc = "returned" /\ MapSize(runningTasks) = 0 /\ ret = <<input>>))

\* C2: the workflow has returned count after draining several steps
C2_Witness ==
  IsRace /\ pc = "returned" /\ input >= 2 /\ ret = <<input>> /\ Len(done) = input

\* C3: promiseAllStressTestWorkflow resumes only when all count steps have
\* completed, results[i] is the value of the i-th submitted step, whatever
\* the completion order, and the workflow returns count.
C3_AllInOrder ==
  (IsAll /\ pc = "returned") =>
    /\ Len(promises) = input
    /\ \A k \in 1..Len(promises) : Fulfilled(promises[k])
    /\ Range(completionOrder) = Indices
    /\ results = [k \in 1..input |-> k - 1]
    /\ ret = <<input>>

\* C3: all steps awaited, having completed in another order than submitted
C3_Witness ==
  /\ IsAll
  /\ pc = "returned"
  /\ input >= 3
  /\ completionOrder # results
  /\ completionOrder[1] = input - 1

\* C4: in tenParallelStepsWorkflow the 10 steps are all started before the
\* combined wait begins, each is executed once and counted once, and the
\* workflow returns 420.
C4_TenParallel ==
  IsPar =>
    /\ \A s \in 1..Len(steps) : steps[s].fn = "doWork" /\ steps[s].execs <= 1
    /\ NoDup(promises)
    /\ pc \in {"await", "returned"} =>
         Len(steps) = 10 /\ promises = [k \in 1..10 |-> k]
    /\ pc = "returned" =>
         /\ \A s \in 1..Len(steps) : steps[s].execs = 1
         /\ Len(results) = 10
         /\ \A k \in 1..10 : results[k] = steps[promises[k]].value
         /\ ret = <<420>>

\* C4: the combined wait has begun while some steps are complete and others
\* are still in flight
C4_Witness ==
  /\ IsPar
  /\ pc = "await"
  /\ Fulfilled(10)
  /\ ~Fulfilled(1)
  /\ Cardinality(InFlight) = 5

\* C4: the workflow has returned
C4_Returned == IsPar /\ pc = "returned" /\ ret # <<>>

\* C5: in tenSequentialStepsWorkflow at most one step is in flight, a step
\* is started only when all earlier ones have completed, each of the 10 steps
\* is executed once, and the workflow returns 42.
C5_TenSequential ==
  IsSeq =>
    /\ Cardinality(InFlight) <= 1
    /\ \A s \in 1..(Len(steps) - 1) : Fulfilled(s)
    /\ \A s \in 1..Len(steps) : steps[s].execs <= 1
    /\ Len(steps) <= 10
    /\ Len(steps) = IF pc = "await" THEN i + 1 ELSE i
    /\ pc = "returned" =>
         /\ Len(steps) = 10
         /\ \A s \in 1..Len(steps) : steps[s].execs = 1
         /\ ret = <<42>>

\* C5: the workflow has returned after its tenth step
C5_Witness == IsSeq /\ pc = "returned" /\ Len(steps) = 10 /\ ret # <<>>

IsStream == prog = "streamWorkflow"
IsInstr == prog = "instrumentation"

\* the bytes of "0\n", "2\n", ..., "18\n"
Doubled ==
  << <<48, 10>>, <<50, 10>>, <<52, 10>>, <<54, 10>>, <<56, 10>>,
     <<49, 48, 10>>, <<49, 50, 10>>, <<49, 52, 10>>, <<49, 54, 10>>,
     <<49, 56, 10>> >>

\* all that the returned stream has carried so far
Carried == received \o outQueue

\* C6: in streamWorkflow the returned stream carries a prefix of the chunks
\* "0\n", "2\n", ..., "18\n" at every moment; the transform stream is closed
\* only when every chunk of the generator was delivered to it and the reader
\* is told of the closure only after it has read all 10 chunks.
C6_StreamDelivery ==
  IsStream =>
    /\ IsPrefix(Carried, Doubled)
    /\ Len(Carried) + Len(srcQueue) = (IF genPc = "none" THEN 0
                                       ELSE IF genPc = "closed" THEN 10
                                       ELSE genI + 1)
    /\ (pipe = "closed" \/ outClose) =>
         genPc = "closed" /\ srcQueue = <<>> /\ Carried = Doubled
    /\ readerDone => received = Doubled /\ outQueue = <<>>

\* C6: the reader has read all the chunks and has seen the closure
C6_Witness == IsStream /\ readerDone /\ Len(received) = 10

\* C6: the generator has closed its stream while chunks were still queued in
\* front of the transform
C6_ClosePending ==
  IsStream /\ srcClose /\ Len(srcQueue) >= 2 /\ pipe = "piping" /\ outQueue # <<>>

\* C7: the bootstrap never calls start when NEXT_RUNTIME is 'edge'; otherwise
\* it loads the module and calls start at most once, after the load has
\* resolved; registerOTel is called once with 'example-nextjs-workflow',
\* before any load or start.
C7_Bootstrap ==
  IsInstr =>
    /\ NEXT_RUNTIME = "edge" =>
         startCalls = 0 /\ importState = "none" /\ kick = "none" /\ chain = "none"
    /\ (NEXT_RUNTIME # "edge" /\ pc = "returned") => importState # "none"
    /\ startCalls <= 1
    /\ (startCalls > 0 \/ kick # "none") => importState = "resolved"
    /\ otel = (IF pc = "start" THEN <<>> ELSE <<"example-nextjs-workflow">>)
    /\ (importState # "none" \/ startCalls > 0) => Len(otel) = 1

\* C7: outside the edge runtime (NEXT_RUNTIME unset) start was called
C7_Witness ==
  IsInstr /\ NEXT_RUNTIME = "unset" /\ startCalls = 1 /\ kick = "done"

\* C7: the bootstrap ended in the edge runtime
C7_Edge == IsInstr /\ NEXT_RUNTIME = "edge" /\ pc = "returned" /\ Len(otel) = 1

\* C8: when start() rejects, it was called once and is not called again, and
\* the callback, once over, leaves the promise of then() rejected.
C8_RejectionPropagates ==
  (IsInstr /\ startState = "rejected") =>
    /\ startCalls = 1
    /\ kick \in {"awaiting", "done"}
    /\ chain = (IF kick = "done" THEN "rejected" ELSE "pending")

\* C8: the rejection of start() has reached the promise of then()
C8_Witness ==
  IsInstr /\ world.startRejects /\ startState = "rejected" /\ kick = "done"

\* C9, as stated: when the world has no start method, the promise of then()
\* ends rejected.
C9_MissingStartRejects ==
  (IsInstr /\ ~world.hasStart /\ kick = "done") => chain = "rejected"

\* C9, amended: when the world has no start method, start?.() calls nothing
\* and is no failure: the promise of then() ends fulfilled.
C9_MissingStartIsSkipped ==
  (IsInstr /\ ~world.hasStart) =>
    /\ startCalls = 0
    /\ startState = "none"
    /\ chain # "rejected" \/ world.importFails
    /\ kick = "done" => chain = "fulfilled"

\* C9: the callback is over for a world without start
C9_Witness ==
  IsInstr /\ NEXT_RUNTIME # "edge" /\ ~world.hasStart /\ kick = "done"

\* C10: noStepsWorkflow starts no step and returns input * 2;
\* oneStepWorkflow starts one doWork step, returns only after it completed,
\* and returns 42 + input.
C10_ZeroOrOneStep ==
  /\ prog = "noStepsWorkflow" =>
       /\ steps = <<>>
       /\ pc = "returned" => ret = <<input * 2>>
  /\ prog = "oneStepWorkflow" =>
       /\ Len(steps) = (IF pc = "start" THEN 0 ELSE 1)
       /\ \A s \in 1..Len(steps) : steps[s].fn = "doWork" /\ steps[s].execs <= 1
       /\ pc = "returned" =>
            /\ Fulfilled(1)
            /\ steps[1].execs = 1
            /\ ret = <<42 + input>>

\* C10: oneStepWorkflow has returned for a negative input
C10_Witness ==
  prog = "oneStepWorkflow" /\ pc = "returned" /\ input < 0 /\ ret = <<42 + input>>

\* C10: noStepsWorkflow has returned for a positive input
C10_NoSteps ==
  prog = "noStepsWorkflow" /\ pc = "returned" /\ input > 0 /\ ret # <<>>

\* the bytes of "0\n", "1\n", ..., "9\n"
Generated ==
  << <<48, 10>>, <<49, 10>>, <<50, 10>>, <<51, 10>>, <<52, 10>>,
     <<53, 10>>, <<54, 10>>, <<55, 10>>, <<56, 10>>, <<57, 10>> >>

\* C11: genBenchStream's producer enqueues the chunks "0\n", ..., "9\n" in
\* that order and no other, has set a timer after each enqueue (the last
\* included), calls close() once, after the tenth pause, and enqueues
\* nothing once it has closed the stream.
C11_ProduceThenClose ==
  IsStream =>
    /\ IsPrefix(enqueued, Generated)
    /\ pauses = Len(enqueued)
    /\ genPc = "paused" => Len(enqueued) = genI + 1 /\ closes = 0
    /\ closes = (IF genPc = "closed" THEN 1 ELSE 0)
    /\ srcClose = (closes = 1)
    /\ closes = 1 => enqueued = Generated /\ pauses = 10

\* C11: the producer has closed the stream after its tenth chunk and pause
C11_Witness ==
  IsStream /\ closes = 1 /\ Len(enqueued) = 10 /\ pauses = 10 /\ genPc = "closed"

IsDouble == prog = "doubleNumbers"

\* lists of whole lines a chunk may hold: the lines of the streams, and the
\* empty line that follows a final newline
WholeLineLists == UNION {[1..n -> Lines \cup {<<>>}] : n \in 1..(MaxLines + 1)}

RECURSIVE JoinLines(_)
\* the lines joined by newlines
JoinLines(ls) ==
  IF Len(ls) = 1 THEN ls[1] ELSE ls[1] \o <<"\n">> \o JoinLines(Tail(ls))

Blank(line) == \A k \in 1..Len(line) : line[k] = " "

\* what a line is doubled to: the bytes of "14\n", "24\n", "-6\n"; nothing
\* for a blank line
DoubledLine(line) ==
  CASE line = <<"7">> -> << <<49, 52, 10>> >>
    [] line = <<"1", "2">> -> << <<50, 52, 10>> >>
    [] line = <<"-", "3">> -> << <<45, 54, 10>> >>
    [] OTHER -> <<>>

RECURSIVE DoubledLines(_)
DoubledLines(ls) ==
  IF ls = <<>> THEN <<>> ELSE DoubledLine(Head(ls)) \o DoubledLines(Tail(ls))

\* each chunk made of whole lines, with what its lines are doubled to and
\* the number of its non-blank lines
WholeLineChunks ==
  {[chunk |-> Encode(JoinLines(ls)),
    doubled |-> DoubledLines(ls),
    nonBlank |-> Cardinality({k \in 1..Len(ls) : ~Blank(ls[k])})] :
     ls \in WholeLineLists}

\* C12: whenever the transform takes a chunk made of whole lines, it appends
\* to its output one chunk '<2*n>\n' per line holding a number n, in the
\* order of the lines, and nothing for a blank or white-space line: as many
\* chunks as the chunk has non-blank lines.
C12_OneChunkPerLine ==
  [][Len(srcQueue') < Len(srcQueue) =>
       \A c \in WholeLineChunks :
         c.chunk = Head(srcQueue) =>
           /\ outQueue' = outQueue \o c.doubled
           /\ Len(outQueue') - Len(outQueue) = c.nonBlank]_vars

\* C12: the transform has taken the chunk "12\n \n" and emitted "24\n" only
C12_Witness ==
  /\ IsDouble
  /\ enqueued = << <<49, 50, 10, 32, 10>> >>
  /\ srcQueue = <<>>
  /\ received \o outQueue = << <<50, 52, 10>> >>

\* the lines of the stream given to doubleNumbers
StreamLines == CHOOSE ls \in LineSeqs : Encode(TextOf(ls)) = Flatten(enqueued)

\* C13, as stated: however the text of the stream is cut into chunks, the
\* concatenated output holds each number of the text doubled, one per line.
C13_ChunkingIndependent ==
  (IsDouble /\ readerDone) => Flatten(received) = Flatten(DoubledLines(StreamLines))

\* C14: at every evaluation of the while condition of the race workflow,
\* runningTasks.size + done.length = count and the keys left are disjoint
\* from `done`; the result of a race is the key of an entry still present,
\* so each iteration removes exactly one entry (size = count - done.length
\* throughout) and exactly count race waits are performed.
C14_LoopInvariant ==
  (IsRace /\ pc \in {"while", "await", "returned"}) =>
    /\ MapSize(runningTasks) + Len(done) = input
    /\ MapKeys(runningTasks) \cap Range(done) = {}
    /\ Cardinality(MapKeys(runningTasks)) = MapSize(runningTasks)
    /\ raceWaits = (IF pc = "await" THEN Len(done) + 1 ELSE Len(done))
    /\ (pc = "await" /\ race.st = "settled") => race.v \in MapKeys(runningTasks)
    /\ pc = "returned" => raceWaits = input /\ MapSize(runningTasks) = 0

\* C14: the while condition is evaluated in the middle of the drain
C14_Witness ==
  /\ IsRace
  /\ pc = "while"
  /\ input >= 3
  /\ Len(done) = 2
  /\ MapSize(runningTasks) = input - 2
  /\ raceWaits = 2

\* the step that stressTestStep(k) started is complete
StepOfKeyDone(k) ==
  \E s \in 1..Len(steps) : steps[s].arg = k /\ Fulfilled(s)

\* C15: the drain never removes a pending unit: every entry no longer in
\* runningTasks (all of `done`) belongs to a completed step, and every step
\* in flight is still an entry of runningTasks, under its own key.
C15_NoPendingRemoved ==
  IsRace =>
    /\ \A k \in Range(done) : StepOfKeyDone(k)
    /\ \A s \in 1..Len(steps) :
         steps[s].arg \notin MapKeys(runningTasks) => Fulfilled(s)
    /\ \A s \in InFlight :
         \E e \in Range(runningTasks) : e.key = steps[s].arg /\ e.task = s

\* C15: an entry has been removed while one step is still pending and
\* another, complete, is still tracked
C15_Witness ==
  /\ IsRace
  /\ pc = "while"
  /\ Len(done) = 1
  /\ InFlight # {}
  /\ \E e \in Range(runningTasks) : Fulfilled(e.task)

\* C16: with count = 0 both stress workflows start no step and return 0:
\* the combined wait over no promise can be resumed from, and the race
\* workflow begins no race wait; for every count, a race that is awaited is
\* a race over at least one promise.
C16_CountZero ==
  /\ (IsAll /\ input = 0) =>
       /\ steps = <<>>
       /\ pc = "await" => ENABLED promiseAllStressTestWorkflow_return
       /\ pc = "returned" => results = <<>> /\ ret = <<0>>
  /\ (IsRace /\ input = 0) =>
       /\ steps = <<>>
       /\ raceWaits = 0
       /\ pc # "await"
       /\ pc = "returned" => done = <<>> /\ ret = <<0>>
  /\ IsRace =>
       /\ race.st # "none" => race.tasks # <<>>
       /\ raceWaits > 0 => input > 0

\* C16: the race workflow has returned 0 for count = 0
C16_Witness == IsRace /\ input = 0 /\ pc = "returned" /\ ret = <<0>>

\* C16: promiseAllStressTestWorkflow has returned 0 for count = 0
C16_AllReturned == IsAll /\ input = 0 /\ pc = "returned" /\ ret = <<0>>

=============================================================================
